---------------------------- MODULE Spec2Model ----------------------------
(***************************************************************************)
(* Model of src/src/main.cpp: the frame loop of main(), processInput,      *)
(* createRandomBall, createDuplicateBall and updateBalls.                  *)
(*                                                                         *)
(* Numbers.  Positions, velocities, times and colours are the program's    *)
(* floats in fixed point, in thousandths (0.9f is 900), every operation    *)
(* rounded to the nearest thousandth as a float operation rounds to the    *)
(* nearest float.  addedMomentum is kept as the exact binary32 value, in   *)
(* units of 2^-28, and added with binary32 rounding (FAdd).                *)
(***************************************************************************)
EXTENDS Integers, Sequences, FiniteSets

VARIABLES
    balls,              \* main(): std::vector<Ball> balls
    spacePressed,       \* processInput(): static bool spacePressed
    shouldClose,        \* the window's should-close flag
    pc,                 \* position in the render loop
    frame,              \* number of completed loop iterations
    adjustedDeltaTime,  \* updateBalls(): adjustedDeltaTime
    i,                  \* updateBalls(): loop index, 1-based
    newBalls,           \* updateBalls(): std::vector<Ball> newBalls
    played,             \* number of soundPlayer.play() calls so far
    log,                \* history: what the current updateBalls call did, in order
    keyNow,             \* history: space key state read by the last processInput
    keyPrev,            \* history: space key state read by the one before
    lenAtInput,         \* history: balls.size() when the last processInput began
    startBalls,         \* history: balls when the current updateBalls call began
    nextId,             \* history: next fresh ball identity
    probe               \* colour gradient probe: [t, col]

vars == <<balls, spacePressed, shouldClose, pc, frame, adjustedDeltaTime, i,
          newBalls, played, log, keyNow, keyPrev, lenAtInput, startBalls,
          nextId, probe>>

---------------------------------------------------------------------------
(* Bounds of the model *)

\* Loop iterations explored from the seed ball.
MaxFrames == 3
\* updateBalls' MAX_BALLS (10000 in the source), scaled down.
MAX_BALLS == 3
\* Largest number of earlier wall collisions of a starting ball in SpecAny.
MaxHits == 80
\* Largest normalizedDistance, in thousandths, probed in SpecColor.
MaxT == 1000

\* One unit of the fixed-point representation is 1/Scale.
Scale == 10 * 10 * 10

\* Frame times (glfwGetTime differences) offered to the loop: 0.1 s and 1 s.
DeltaTimes == {100, 1000}
\* Pairs of consecutive values of dis(gen), each uniform in [-1, 1].
RandPairs == {<<-1000, 1000>>, <<1000, 1000>>}
\* Samples <<pos, pos, vel, vel>> of createRandomBall's generator: pos(gen) is
\* uniform in (-wallRadius + 0.1, wallRadius - 0.1), vel(gen) in [-0.25, 0.25].
Draws == {<<0, 0, -250, -250>>, <<600, 600, 250, 250>>, <<-800, -800, 250, -250>>}
\* Values an uninitialized colour (r, g, b) of a fresh Ball may hold.
UninitColors == {<<0, 0, 0>>, <<1000, 0, 1000>>}

---------------------------------------------------------------------------
(* Program constants *)

SIMULATION_SPEED == 500
WallRadius == 900
BallRadius == 50
GRAVITY == 1400
CENTER_BIAS == 500
RANDOM_FACTOR == 400
MaxSpeed == 2500
MomentumReduction == 950
BAND_LOW == 330
BAND_HIGH == 660
BAND_SLOPE == 3000
\* binary32 values in units of 2^-28
F32_105 == 281857216
MOMENTUM_INCREMENT == 13421773
MAX_ADDED_MOMENTUM == 1342177280

---------------------------------------------------------------------------
(* Arithmetic *)

Abs(a) == IF a >= 0 THEN a ELSE -a

Min(a, b) == IF b < a THEN b ELSE a

\* a / b rounded to the nearest integer, b > 0
RDiv(a, b) == IF a >= 0 THEN (2 * a + b) \div (2 * b)
              ELSE -((2 * (-a) + b) \div (2 * b))

\* float product of two fixed-point values
MulFix(a, b) == RDiv(a * b, Scale)

\* float quotient of two fixed-point values
DivFix(a, b) == RDiv(a * Scale, b)

\* the integer part of the square root of n > 0, by Newton's iteration from
\* x >= sqrt(n)
RECURSIVE SqrtLo(_, _)
SqrtLo(n, x) ==
    LET y == (x + n \div x) \div 2
    IN  IF y >= x THEN x ELSE SqrtLo(n, y)

\* std::sqrt of the integer n, rounded to nearest
Sqrt(n) ==
    IF n = 0 THEN 0
    ELSE LET r == SqrtLo(n, IF n < 65536 THEN 256
                            ELSE IF n < 16777216 THEN 4096 ELSE 46340)
         IN  IF n - r * r > r THEN r + 1 ELSE r

\* std::sqrt(x*x + y*y): the argument is in units of 1/Scale^2
Hypot(x, y) == Sqrt(x * x + y * y)

\* binary32 rounding (to nearest, ties to even) of a value in [1, 8), units 2^-28
FRound(v) ==
    LET q == IF v < 536870912 THEN 32 ELSE IF v < 1073741824 THEN 64 ELSE 128
        lo == (v \div q) * q
        rem == v - lo
    IN  IF 2 * rem < q THEN lo
        ELSE IF 2 * rem > q THEN lo + q
        ELSE IF (lo \div q) % 2 = 0 THEN lo ELSE lo + q

\* binary32 addition
FAdd(a, b) == FRound(a + b)

\* a binary32 value in [1, 8) as a fixed-point value
ToFix(f) == RDiv((f \div 8192) * 125, 4096)

\* std::atan2(y, x): the angle is kept as the direction it denotes
Atan2(y, x) == <<x, y>>

Cos(angle) == IF angle = <<0, 0>> THEN Scale
              ELSE DivFix(angle[1], Hypot(angle[1], angle[2]))

Sin(angle) == IF angle = <<0, 0>> THEN 0
              ELSE DivFix(angle[2], Hypot(angle[1], angle[2]))

---------------------------------------------------------------------------
(* struct Ball.  id and hits are history fields: the ball's identity and   *)
(* the number of wall collisions it has had.                               *)

Ball(x, y, dx, dy, col, am, id, hits) ==
    [x |-> x, y |-> y, dx |-> dx, dy |-> dy, radius |-> BallRadius,
     r |-> col[1], g |-> col[2], b |-> col[3], addedMomentum |-> am,
     id |-> id, hits |-> hits]

---------------------------------------------------------------------------
(* The colour gradient of updateBalls *)

Band1(t) == <<Scale, MulFix(t, BAND_SLOPE), 0>>

Band2Shifted(t) == <<Scale - MulFix(t - 300, BAND_SLOPE), Scale,
                     MulFix(t - 300, BAND_SLOPE)>>

Band2(t) == <<Scale - MulFix(t - BAND_LOW, BAND_SLOPE), Scale,
              MulFix(t - BAND_LOW, BAND_SLOPE)>>

Band3(t) == <<MulFix(t - BAND_HIGH, BAND_SLOPE),
              Scale - MulFix(t - BAND_HIGH, BAND_SLOPE), Scale>>

Gradient(t) == IF t < BAND_LOW THEN Band1(t)
               ELSE IF t < BAND_HIGH THEN Band2(t)
               ELSE Band3(t)

\* normalizedDistance of a ball
NormalizedDistance(ball) == DivFix(Hypot(ball.x, ball.y), WallRadius)

ColorOf(ball) == Gradient(NormalizedDistance(ball))

Recolor(ball) == LET c == ColorOf(ball)
                 IN  [ball EXCEPT !.r = c[1], !.g = c[2], !.b = c[3]]

\* the loop "for (auto& ball : balls)" nested in the loop over i
ColorAll(bs) == [k \in 1..Len(bs) |-> Recolor(bs[k])]

---------------------------------------------------------------------------
(* createRandomBall, createDuplicateBall *)

\* the condition of createRandomBall's do-while loop
Rejected(x, y) == Hypot(x, y) > WallRadius - BallRadius

\* the balls createRandomBall can return, with identity id
createRandomBall(id) ==
    {Ball(q[1][1], q[1][2], q[1][3], q[1][4], q[2], F32_105, id, 0) :
        q \in {d \in Draws : ~Rejected(d[1], d[2])} \X UninitColors}

createDuplicateBall(original, momentumReduction, id) ==
    [original EXCEPT !.dx = MulFix(original.dx, momentumReduction),
                     !.dy = MulFix(original.dy, momentumReduction),
                     !.addedMomentum = F32_105,
                     !.id = id, !.hits = 0]

---------------------------------------------------------------------------
(* processInput *)

SpawnOnLevel(key, pressed) == key

\* whether processInput pushes a ball
ShouldSpawn(key, pressed) == key /\ ~pressed

ProcessInput ==
    /\ pc = "input"
    /\ ~shouldClose
    /\ frame < MaxFrames
    /\ \E esc, key \in BOOLEAN :
        /\ shouldClose' = esc
        /\ IF key
           THEN /\ spacePressed' = TRUE
                /\ IF ShouldSpawn(key, spacePressed)
                   THEN /\ \E ball \in createRandomBall(nextId) :
                              balls' = Append(balls, ball)
                        /\ nextId' = nextId + 1
                   ELSE UNCHANGED <<balls, nextId>>
           ELSE /\ spacePressed' = FALSE
                /\ UNCHANGED <<balls, nextId>>
        /\ keyNow' = key
        /\ keyPrev' = keyNow
    /\ lenAtInput' = Len(balls)
    /\ pc' = "update"
    /\ UNCHANGED <<frame, adjustedDeltaTime, i, newBalls, played, log,
                   startBalls, probe>>

---------------------------------------------------------------------------
(* updateBalls: the body of the loop over i, in the order of the code *)

\* gravity and position update
Integrate(ball, adt) ==
    LET dy1 == ball.dy - MulFix(GRAVITY, adt)
    IN  [ball EXCEPT !.dy = dy1,
                     !.x = ball.x + MulFix(ball.dx, adt),
                     !.y = ball.y + MulFix(dy1, adt)]

\* the collision test on distanceFromCenter
HitsWall(ball, distanceFromCenter) ==
    distanceFromCenter + ball.radius > WallRadius

ClampToOuterWall(ball) ==
    LET angle == Atan2(ball.y, ball.x)
    IN  [ball EXCEPT !.x = MulFix(WallRadius, Cos(angle)),
                     !.y = MulFix(WallRadius, Sin(angle))]

\* "Normalize the ball's position to the wall"
ClampToWall(ball) ==
    LET angle == Atan2(ball.y, ball.x)
    IN  [ball EXCEPT !.x = MulFix(WallRadius - ball.radius, Cos(angle)),
                     !.y = MulFix(WallRadius - ball.radius, Sin(angle))]

\* nx, ny: the ball's position, already moved to the wall, over the distance
\* measured before it was moved
WallNormal(ball, distanceFromCenter) ==
    <<DivFix(ball.x, distanceFromCenter), DivFix(ball.y, distanceFromCenter)>>

MomentumUnbounded(am) == FAdd(am, MOMENTUM_INCREMENT)

\* "Increase the added momentum"
MomentumAfterHit(am) == Min(FAdd(am, MOMENTUM_INCREMENT), MAX_ADDED_MOMENTUM)

\* reflection, centre bias, random variation, normalisation and momentum, for a
\* ball already moved to the wall.  A zero speed divides 0 by 0 in the code;
\* the model leaves the velocity at 0 there.
Bounce(ball, distanceFromCenter, randX, randY) ==
    LET n == WallNormal(ball, distanceFromCenter)
        dotProduct == MulFix(ball.dx, n[1]) + MulFix(ball.dy, n[2])
        rx == ball.dx - MulFix(2 * dotProduct, n[1])
        ry == ball.dy - MulFix(2 * dotProduct, n[2])
        centerX == -n[1]
        centerY == -n[2]
        vx == MulFix(rx, Scale - CENTER_BIAS) + MulFix(centerX, CENTER_BIAS)
                + MulFix(randX, RANDOM_FACTOR)
        vy == MulFix(ry, Scale - CENTER_BIAS) + MulFix(centerY, CENTER_BIAS)
                + MulFix(randY, RANDOM_FACTOR)
        speed == Hypot(vx, vy)
        ux == IF speed = 0 THEN 0 ELSE DivFix(vx, speed)
        uy == IF speed = 0 THEN 0 ELSE DivFix(vy, speed)
        am == MomentumAfterHit(ball.addedMomentum)
        totalMomentum == ToFix(FAdd(F32_105, am))
    IN  [ball EXCEPT !.dx = MulFix(ux, totalMomentum),
                     !.dy = MulFix(uy, totalMomentum),
                     !.addedMomentum = am,
                     !.hits = ball.hits + 1]

\* "Limit maximum speed"
LimitSpeed(ball) ==
    LET currentSpeed == Hypot(ball.dx, ball.dy)
    IN  IF currentSpeed > MaxSpeed
        THEN [ball EXCEPT !.dx = MulFix(DivFix(ball.dx, currentSpeed), MaxSpeed),
                          !.dy = MulFix(DivFix(ball.dy, currentSpeed), MaxSpeed)]
        ELSE ball

\* whether a colliding ball is duplicated
BelowCap(bs, nb) == Len(bs) + Len(nb) < MAX_BALLS

QueueInPlace(bs, nb, dup) == <<Append(bs, dup), nb>>

\* newBalls.push_back(duplicate): the vectors <<balls, newBalls>> afterwards
QueueDuplicate(bs, nb, dup) == <<bs, Append(nb, dup)>>

SoundWithDuplicate(k, n, dup) ==
    IF dup THEN <<[ev |-> "play", i |-> k], [ev |-> "reflect", i |-> k, n |-> n],
                  [ev |-> "queue", i |-> k]>>
    ELSE <<[ev |-> "reflect", i |-> k, n |-> n]>>

\* what the collision branch does for ball k, in order: soundPlayer.play(),
\* the reflection about n, and the duplicate queued when dup
HitEvents(k, n, dup) ==
    <<[ev |-> "play", i |-> k], [ev |-> "reflect", i |-> k, n |-> n]>>
    \o (IF dup THEN <<[ev |-> "queue", i |-> k]>> ELSE <<>>)

\* number of "play" events in a sequence of events
RECURSIVE Plays(_)
Plays(es) == IF es = <<>> THEN 0
             ELSE (IF Head(es).ev = "play" THEN 1 ELSE 0) + Plays(Tail(es))

UpdateBegin ==
    /\ pc = "update"
    /\ \E deltaTime \in DeltaTimes :
          adjustedDeltaTime' = MulFix(deltaTime, SIMULATION_SPEED)
    /\ newBalls' = <<>>
    /\ i' = 1
    /\ log' = <<>>
    /\ startBalls' = balls
    /\ pc' = "loop"
    /\ UNCHANGED <<balls, spacePressed, shouldClose, frame, played, keyNow,
                   keyPrev, lenAtInput, nextId, probe>>

\* one pass of the loop body for ball k: the events it produces, whether it
\* queues a duplicate, and the vectors newBalls and balls afterwards
LoopBody(bs, nb, k, adt, randX, randY, id) ==
    LET moved == Integrate(bs[k], adt)
        distanceFromCenter == Hypot(moved.x, moved.y)
        hit == HitsWall(moved, distanceFromCenter)
        atWall == ClampToWall(moved)
        bounced == IF hit
                   THEN Bounce(atWall, distanceFromCenter, randX, randY)
                   ELSE moved
        dup == hit /\ BelowCap(bs, nb)
        queued == IF dup
                  THEN QueueDuplicate([bs EXCEPT ![k] = bounced], nb,
                          createDuplicateBall(bounced, MomentumReduction, id))
                  ELSE <<[bs EXCEPT ![k] = bounced], nb>>
        coloured == ColorAll(queued[1])
        events == <<[ev |-> "move", i |-> k, hit |-> hit,
                     at |-> <<moved.x, moved.y>>]>>
                  \o (IF hit
                      THEN HitEvents(k, WallNormal(atWall, distanceFromCenter), dup)
                      ELSE <<>>)
    IN  [events |-> events,
         dup |-> dup,
         newBalls |-> queued[2],
         balls |-> [coloured EXCEPT ![k] = LimitSpeed(coloured[k])]]

UpdateBall ==
    /\ pc = "loop"
    /\ i <= Len(balls)
    /\ \E rand \in RandPairs :
        LET after == LoopBody(balls, newBalls, i, adjustedDeltaTime,
                              rand[1], rand[2], nextId)
        IN  /\ balls' = after.balls
            /\ newBalls' = after.newBalls
            /\ nextId' = IF after.dup THEN nextId + 1 ELSE nextId
            /\ log' = log \o after.events
            /\ played' = played + Plays(after.events)
    /\ i' = i + 1
    /\ UNCHANGED <<spacePressed, shouldClose, pc, frame, adjustedDeltaTime,
                   keyNow, keyPrev, lenAtInput, startBalls, probe>>

\* balls.insert(balls.end(), newBalls.begin(), newBalls.end()) and the return
UpdateEnd ==
    /\ pc = "loop"
    /\ i > Len(balls)
    /\ balls' = balls \o newBalls
    /\ pc' = "render"
    /\ UNCHANGED <<spacePressed, shouldClose, frame, adjustedDeltaTime, i,
                   newBalls, played, log, keyNow, keyPrev, lenAtInput,
                   startBalls, nextId, probe>>

\* the draw calls over balls, glfwSwapBuffers and glfwPollEvents
Render ==
    /\ pc = "render"
    /\ pc' = "input"
    /\ frame' = frame + 1
    /\ UNCHANGED <<balls, spacePressed, shouldClose, adjustedDeltaTime, i,
                   newBalls, played, log, keyNow, keyPrev, lenAtInput,
                   startBalls, nextId, probe>>

---------------------------------------------------------------------------
(* The program: main() pushes one random ball and enters the render loop *)

Init ==
    /\ balls \in {<<b>> : b \in createRandomBall(1)}
    /\ spacePressed = FALSE
    /\ shouldClose = FALSE
    /\ pc = "input"
    /\ frame = 0
    /\ adjustedDeltaTime = 0
    /\ i = 1
    /\ newBalls = <<>>
    /\ played = 0
    /\ log = <<>>
    /\ keyNow = FALSE
    /\ keyPrev = FALSE
    /\ lenAtInput = 1
    /\ startBalls = <<>>
    /\ nextId = 2
    /\ probe = [t |-> 0, col |-> Gradient(0)]

Next == ProcessInput \/ UpdateBegin \/ UpdateBall \/ UpdateEnd \/ Render

Spec == Init /\ [][Next]_vars

---------------------------------------------------------------------------
(* updateBalls entered with one ball that has collided k times before, for *)
(* every k up to MaxHits, and one iteration of the render loop left.       *)

\* addedMomentum am after n more wall collisions, taken as two runs of
\* collisions; at MAX_ADDED_MOMENTUM a further collision changes nothing
RECURSIVE MomentumAfter(_, _)
MomentumAfter(am, n) ==
    IF n = 0 THEN am
    ELSE IF n = 1 THEN MomentumAfterHit(am)
    ELSE LET half == MomentumAfter(am, n \div 2)
         IN  IF half = MAX_ADDED_MOMENTUM THEN half
             ELSE MomentumAfter(half, n - n \div 2)

\* position and velocity of the starting ball: inside the wall, at most MaxSpeed
AnyStarts == {<<0, -800, 0, -2500>>, <<0, 0, 1500, 2000>>}

InitAny ==
    /\ \E q \in AnyStarts, k \in 0..MaxHits :
          /\ balls = <<Recolor(Ball(q[1], q[2], q[3], q[4], <<0, 0, 0>>,
                                    MomentumAfter(F32_105, k), 1, k))>>
          /\ played = k
    /\ spacePressed = FALSE
    /\ shouldClose = FALSE
    /\ pc = "input"
    /\ frame = MaxFrames - 1
    /\ adjustedDeltaTime = 0
    /\ i = 1
    /\ newBalls = <<>>
    /\ log = <<>>
    /\ keyNow = FALSE
    /\ keyPrev = FALSE
    /\ lenAtInput = 1
    /\ startBalls = <<>>
    /\ nextId = 2
    /\ probe = [t |-> 0, col |-> Gradient(0)]

SpecAny == InitAny /\ [][Next]_vars

---------------------------------------------------------------------------
(* The colour gradient alone, applied to every normalizedDistance up to MaxT *)

InitColor ==
    /\ balls = <<>>
    /\ spacePressed = FALSE
    /\ shouldClose = FALSE
    /\ pc = "probe"
    /\ frame = 0
    /\ adjustedDeltaTime = 0
    /\ i = 1
    /\ newBalls = <<>>
    /\ played = 0
    /\ log = <<>>
    /\ keyNow = FALSE
    /\ keyPrev = FALSE
    /\ lenAtInput = 0
    /\ startBalls = <<>>
    /\ nextId = 1
    /\ \E t \in 0..MaxT : probe = [t |-> t, col |-> <<0, 0, 0>>]

ProbeColor ==
    /\ pc = "probe"
    /\ probe' = [probe EXCEPT !.col = Gradient(probe.t)]
    /\ pc' = "probed"
    /\ UNCHANGED <<balls, spacePressed, shouldClose, frame, adjustedDeltaTime,
                   i, newBalls, played, log, keyNow, keyPrev, lenAtInput,
                   startBalls, nextId>>

NextColor == ProbeColor

SpecColor == InitColor /\ [][NextColor]_vars

---------------------------------------------------------------------------
(* Properties *)

\* rounding allowances of the fixed-point arithmetic
SpeedEps == Scale \div 200
PosEps == Scale \div 500
NormEps == Scale \div 100
MomentumEps == 32 * 32

\* every ball of updateBalls: the population and the duplicates queued so far
AllBalls == IF pc = "loop" THEN balls \o newBalls ELSE balls

Events(kind) == SelectSeq(log, LAMBDA e : e.ev = kind)

RECURSIVE SumHits(_)
SumHits(bs) == IF bs = <<>> THEN 0 ELSE Head(bs).hits + SumHits(Tail(bs))

Norm2(v) == v[1] * v[1] + v[2] * v[2]

\* C1: when updateBalls has returned, every ball of the population, the
\* duplicates it appended included, has speed at most 2.5.
C1_SpeedBounded ==
    pc = "render" =>
        \A k \in 1..Len(balls) :
            Norm2(<<balls[k].dx, balls[k].dy>>)
                <= (MaxSpeed + SpeedEps) * (MaxSpeed + SpeedEps)

\* C2: the population never exceeds MAX_BALLS.
C2_PopulationCapped == Len(balls) <= MAX_BALLS

\* number of wall collisions after which addedMomentum reaches its maximum
HitsToSaturate ==
    (MAX_ADDED_MOMENTUM - F32_105 + MOMENTUM_INCREMENT - 1) \div MOMENTUM_INCREMENT

\* C3: addedMomentum of every ball is within [1.05, 5.0]: 1.05 for a ball that
\* has not collided, 1.05 + 0.05 k (to float rounding) and below 5.0 after k
\* collisions for k below 79, and exactly 5.0 from the 79th collision on.
C3_AddedMomentumRange ==
    \A k \in 1..Len(AllBalls) :
        LET ball == AllBalls[k]
        IN  /\ F32_105 <= ball.addedMomentum
            /\ ball.addedMomentum <= MAX_ADDED_MOMENTUM
            /\ HitsToSaturate = 79
            /\ ball.hits = 0 => ball.addedMomentum = F32_105
            /\ ball.hits >= HitsToSaturate =>
                   ball.addedMomentum = MAX_ADDED_MOMENTUM
            /\ ball.hits < HitsToSaturate =>
                   /\ ball.addedMomentum < MAX_ADDED_MOMENTUM
                   /\ Abs(ball.addedMomentum
                          - (F32_105 + ball.hits * MOMENTUM_INCREMENT))
                        <= MomentumEps

\* a ball collided for the 80th time in the current updateBalls call
C3_Witness ==
    /\ pc = "render"
    /\ \E p \in DOMAIN log :
          /\ log[p].ev = "move"
          /\ log[p].hit
          /\ balls[log[p].i].hits = HitsToSaturate + 1
          /\ balls[log[p].i].addedMomentum = MAX_ADDED_MOMENTUM

Contained(ball) ==
    Norm2(<<ball.x, ball.y>>)
        <= (WallRadius - ball.radius + PosEps) * (WallRadius - ball.radius + PosEps)

OnClampCircle(ball) ==
    /\ Contained(ball)
    /\ Norm2(<<ball.x, ball.y>>)
        >= (WallRadius - ball.radius - PosEps) * (WallRadius - ball.radius - PosEps)

\* C4: every ball is inside the wall, |position| + radius <= wallRadius (to
\* rounding): a ball whose moved position fails the collision test stays at
\* that position, one that passes it is on the circle of radius
\* wallRadius - radius, and so are the duplicates.
C4_Containment ==
    /\ \A k \in 1..Len(AllBalls) : Contained(AllBalls[k])
    /\ \A p \in DOMAIN log :
          log[p].ev = "move" =>
              IF log[p].hit
              THEN OnClampCircle(balls[log[p].i])
              ELSE <<balls[log[p].i].x, balls[log[p].i].y>> = log[p].at
    /\ \A k \in 1..Len(newBalls) : OnClampCircle(newBalls[k])

\* updateBalls has returned after moving a ball spawned by the user in this
\* frame, a ball that hit the wall and one that did not, and appending a
\* duplicate
C4_Witness ==
    /\ pc = "render"
    /\ lenAtInput < Len(startBalls)
    /\ Len(newBalls) > 0
    /\ \E p, q \in DOMAIN log :
          /\ log[p].ev = "move" /\ log[p].hit
          /\ log[q].ev = "move" /\ ~log[q].hit

\* C5: in an updateBalls call soundPlayer.play() is called once for each ball
\* whose collision test is true, directly after the test and before the
\* ball's duplicate is queued, and for no other ball, also when no duplicate
\* is made; over the run there are as many calls as collisions, so none comes
\* from processInput.
C5_SoundOncePerCollision ==
    /\ \A p \in DOMAIN log :
          /\ (log[p].ev = "move" /\ log[p].hit) =>
                 /\ p + 1 \in DOMAIN log
                 /\ log[p + 1] = [ev |-> "play", i |-> log[p].i]
          /\ log[p].ev = "play" =>
                 /\ p > 1
                 /\ log[p - 1].ev = "move"
                 /\ log[p - 1].hit
                 /\ log[p - 1].i = log[p].i
          /\ log[p].ev = "queue" =>
                 \E q \in 1..(p - 1) : log[q] = [ev |-> "play", i |-> log[p].i]
    /\ played = SumHits(balls)

\* updateBalls has returned after a collision at the cap: a sound and no duplicate
C5_Witness ==
    /\ pc = "render"
    /\ Len(balls) >= MAX_BALLS
    /\ \E p \in DOMAIN log :
          /\ log[p].ev = "play"
          /\ \A q \in DOMAIN log : log[q] # [ev |-> "queue", i |-> log[p].i]

\* C6: when updateBalls has returned, every ball of the population, the
\* duplicates it appended included, has the gradient colour of its own
\* distance from the centre.
C6_ColorCurrent ==
    pc = "render" =>
        \A k \in 1..Len(balls) :
            <<balls[k].r, balls[k].g, balls[k].b>> = ColorOf(balls[k])

\* C7: processInput adds exactly one ball when the space key is down and was
\* up at the previous processInput (or there was none), and no ball otherwise.
C7_EdgeTriggered ==
    pc = "update" =>
        Len(balls) - lenAtInput = (IF keyNow /\ ~keyPrev THEN 1 ELSE 0)

\* the key held down over two consecutive frames: no ball in the second
C7_Witness ==
    /\ pc = "update"
    /\ keyNow
    /\ keyPrev
    /\ Len(balls) = lenAtInput

\* largest difference of two colours over the three channels
ChannelGap(c, d) ==
    LET gaps == {Abs(c[k] - d[k]) : k \in 1..3}
    IN  CHOOSE m \in gaps : \A g \in gaps : g <= m

\* C8 as stated: at normalizedDistance 0.33 the colour (of the middle band)
\* is the one the first band's formula gives there, and at 0.66 the colour
\* (of the last band) is the one the middle band's formula gives there.
C8_BandsAgree ==
    pc = "probed" =>
        /\ probe.t = BAND_LOW => probe.col = Band1(probe.t)
        /\ probe.t = BAND_HIGH => probe.col = Band2(probe.t)

\* C8 amended: at 0.33 and at 0.66 the two formulas differ by 0.01 and no
\* more in a channel (green at 0.33; red and blue at 0.66); between two
\* neighbouring thousandths of normalizedDistance the colour changes by at
\* most 0.003 a channel inside a band, and by at most 0.013 across a boundary.
C8_BandsWithinHundredth ==
    pc = "probed" =>
        /\ probe.col = Gradient(probe.t)
        /\ probe.t = BAND_LOW =>
               /\ ChannelGap(probe.col, Band1(probe.t)) = Scale \div 100
               /\ probe.col[1] = Band1(probe.t)[1]
               /\ probe.col[3] = Band1(probe.t)[3]
        /\ probe.t = BAND_HIGH =>
               /\ ChannelGap(probe.col, Band2(probe.t)) = Scale \div 100
               /\ probe.col[2] = Band2(probe.t)[2]
        /\ ChannelGap(Gradient(probe.t + 1), probe.col)
             <= (IF probe.t + 1 \in {BAND_LOW, BAND_HIGH}
                 THEN (13 * Scale) \div 1000 ELSE (3 * Scale) \div 1000)

\* the gradient applied at the first boundary
C8_Witness ==
    /\ pc = "probed"
    /\ probe.t = BAND_LOW
    /\ probe.col = Band2(BAND_LOW)

\* C9: during the loop of updateBalls the population is the one the call
\* began with, ball for ball and in order, and the balls moved and tested are
\* the first i - 1 of them, each once; when it has returned the population is
\* that one followed by the queued duplicates, at most one for each ball, and
\* every duplicate is where its original was put on the wall, with no
\* collision of its own.
C9_DuplicatesAfterPass ==
    LET moves == Events("move")
        queues == Events("queue")
        n0 == Len(startBalls)
    IN  /\ pc = "loop" =>
              /\ Len(balls) = n0
              /\ Len(moves) = i - 1
        /\ pc = "render" =>
              /\ Len(moves) = n0
              /\ n0 <= Len(balls)
              /\ Len(balls) <= 2 * n0
              /\ balls = SubSeq(balls, 1, n0) \o newBalls
        /\ pc \in {"loop", "render"} =>
              /\ \A k \in 1..Len(moves) : moves[k].i = k
              /\ \A k \in 1..n0 : balls[k].id = startBalls[k].id
              /\ Len(queues) = Len(newBalls)
              /\ \A j \in 1..Len(queues) :
                    /\ newBalls[j].x = balls[queues[j].i].x
                    /\ newBalls[j].y = balls[queues[j].i].y
                    /\ newBalls[j].hits = 0
                    /\ \A k \in 1..n0 : newBalls[j].id # balls[k].id
                    /\ \A h \in 1..Len(queues) :
                          queues[h].i = queues[j].i => h = j

\* updateBalls has returned with every ball it began with duplicated
C9_Witness ==
    /\ pc = "render"
    /\ Len(startBalls) >= 1
    /\ Len(balls) = 2 * Len(startBalls)

\* C10: the vector n of every reflection has length 1 (to rounding).
C10_UnitNormal ==
    \A p \in DOMAIN log :
        log[p].ev = "reflect" =>
            /\ Norm2(log[p].n) >= (Scale - NormEps) * (Scale - NormEps)
            /\ Norm2(log[p].n) <= (Scale + NormEps) * (Scale + NormEps)

===========================================================================
